---- MODULE Spec2Model ----
(***************************************************************************)
(* The task-state pipeline of the Gold agent: the file store               *)
(* (mcp_file_ops.py), the audit sink (audit_logger.py), the domain         *)
(* classifier (domain_router.py) and the retry loop ralph_wiggum_loop      *)
(* (gold_agent.py).  Texts are sequences of one-character strings, folders *)
(* are functions from filenames to documents, and every file-system, log   *)
(* and network primitive that can fail takes its outcome as an argument    *)
(* that the actions draw nondeterministically.                             *)
(***************************************************************************)
EXTENDS Integers, Sequences, FiniteSets, TLC

\* ---------------------------------------------------------------- bounds
MaxArrivals == 1
MaxFaults == 3
MaxFragments == 2
MaxRuns == 2

\* ------------------------------------------------- configuration (env)
MAX_RETRIES == 2
MAX_LOOPS == 3
LOOP_DELAY == 1

\* Two task filenames; the number is the name's place in sorted() order.
Files == {1, 2}

\* ------------------------------------------------------------------ text
BUSINESS_KEYWORDS ==
  { <<"i","n","v","o","i","c","e">>,
    <<"m","e","e","t","i","n","g">>,
    <<"q","u","a","r","t","e","r","l","y">>,
    <<"r","e","v","e","n","u","e">>,
    <<"c","l","i","e","n","t">>,
    <<"p","r","o","j","e","c","t">>,
    <<"d","e","a","d","l","i","n","e">>,
    <<"s","t","a","k","e","h","o","l","d","e","r">>,
    <<"b","u","d","g","e","t">>,
    <<"s","p","r","i","n","t">>,
    <<"d","e","p","l","o","y","m","e","n","t">>,
    <<"r","e","l","e","a","s","e">>,
    <<"c","o","n","t","r","a","c","t">>,
    <<"p","r","o","p","o","s","a","l">>,
    <<"v","e","n","d","o","r">>,
    <<"c","o","m","p","l","i","a","n","c","e">>,
    <<"a","u","d","i","t">>,
    <<"r","e","p","o","r","t">>,
    <<"r","o","a","d","m","a","p">>,
    <<"m","i","l","e","s","t","o","n","e">>,
    <<"k","p","i">>,
    <<"o","k","r">>,
    <<"p","i","p","e","l","i","n","e">>,
    <<"o","n","b","o","a","r","d","i","n","g">>,
    <<"p","a","y","r","o","l","l">>,
    <<"h","r">>,
    <<"m","a","r","k","e","t","i","n","g">>,
    <<"s","a","l","e","s">>,
    <<"o","p","e","r","a","t","i","o","n","s">>,
    <<"s","t","r","a","t","e","g","y">> }

PERSONAL_KEYWORDS ==
  { <<"g","r","o","c","e","r","y">>,
    <<"d","o","c","t","o","r">>,
    <<"a","p","p","o","i","n","t","m","e","n","t">>,
    <<"b","i","r","t","h","d","a","y">>,
    <<"v","a","c","a","t","i","o","n">>,
    <<"g","y","m">>,
    <<"r","e","c","i","p","e">>,
    <<"f","a","m","i","l","y">>,
    <<"h","o","b","b","y">>,
    <<"t","r","a","v","e","l">>,
    <<"p","e","r","s","o","n","a","l">>,
    <<"r","e","m","i","n","d","e","r">>,
    <<"s","h","o","p","p","i","n","g">>,
    <<"h","e","a","l","t","h">>,
    <<"f","i","t","n","e","s","s">>,
    <<"p","e","t">>,
    <<"h","o","m","e">>,
    <<"g","a","r","d","e","n">> }

TxtGym == <<"g","y","m">>
TxtKpi == <<"k","p","i">>
TxtBlank == <<" ">>
TxtHeader == <<"D","o","m","a","i","n",":"," ","p","e","r","s","o","n","a","l","\n","k","p","i">>
KwDomain == <<"d","o","m","a","i","n",":">>
KwBusiness == <<"b","u","s","i","n","e","s","s">>
KwPersonal == <<"p","e","r","s","o","n","a","l">>

Whitespace == {" ", "\n", "\t"}

Upper ==
  <<"A","B","C","D","E","F","G","H","I","J","K","L","M",
    "N","O","P","Q","R","S","T","U","V","W","X","Y","Z">>
Lower ==
  <<"a","b","c","d","e","f","g","h","i","j","k","l","m",
    "n","o","p","q","r","s","t","u","v","w","x","y","z">>

LowerChar(c) ==
  IF \E k \in 1..Len(Upper) : Upper[k] = c
  THEN Lower[CHOOSE k \in 1..Len(Upper) : Upper[k] = c]
  ELSE c

\* str.lower()
lower(text) == [i \in 1..Len(text) |-> LowerChar(text[i])]

\* str.strip(): drop leading and trailing whitespace
RECURSIVE lstrip(_)
lstrip(text) ==
  IF text # <<>> /\ Head(text) \in Whitespace THEN lstrip(Tail(text)) ELSE text

RECURSIVE rstrip(_)
rstrip(text) ==
  IF text # <<>> /\ text[Len(text)] \in Whitespace
  THEN rstrip(SubSeq(text, 1, Len(text) - 1))
  ELSE text

strip(text) == rstrip(lstrip(text))

\* text[i..] starts with kw
StartsAt(text, i, kw) ==
  /\ i + Len(kw) - 1 <= Len(text)
  /\ SubSeq(text, i, i + Len(kw) - 1) = kw

\* Python's `kw in text`
Contains(text, kw) == \E i \in 1..(Len(text) + 1) : StartsAt(text, i, kw)

\* first index >= i of text that is not whitespace (Len+1 when none): \s*
RECURSIVE SkipSpace(_, _)
SkipSpace(text, i) ==
  IF i <= Len(text) /\ text[i] \in Whitespace THEN SkipSpace(text, i + 1) ELSE i

\* ----------------------------------------------------- domain classifier
\* re.search(r"domain:\s*(business|personal)", text): the positions of a match
HeaderMatches(text) ==
  { i \in 1..Len(text) :
      /\ StartsAt(text, i, KwDomain)
      /\ LET j == SkipSpace(text, i + Len(KwDomain))
         IN  StartsAt(text, j, KwBusiness) \/ StartsAt(text, j, KwPersonal) }

\* group(1) of the leftmost match
HeaderDomain(text) ==
  LET i == CHOOSE m \in HeaderMatches(text) : \A n \in HeaderMatches(text) : m <= n
      j == SkipSpace(text, i + Len(KwDomain))
  IN  IF StartsAt(text, j, KwBusiness) THEN "business" ELSE "personal"

biz_score(text) == Cardinality({kw \in BUSINESS_KEYWORDS : Contains(text, kw)})
per_score(text) == Cardinality({kw \in PERSONAL_KEYWORDS : Contains(text, kw)})

\* the classifier with the header test left out
classify_task_ScoresOnly(content) ==
  LET text == lower(content)
  IN  IF biz_score(text) > per_score(text) THEN "business"
      ELSE IF per_score(text) > biz_score(text) THEN "personal"
      ELSE "business"

classify_task(content) ==
  LET text == lower(content)
  IN  IF HeaderMatches(text) # {} THEN HeaderDomain(text)
      ELSE IF biz_score(text) > per_score(text) THEN "business"
      ELSE IF per_score(text) > biz_score(text) THEN "personal"
      ELSE "business"

\* -------------------------------------------------------------- audit sink
\* What the environment does to one log_action call: LOGS_DIR.mkdir,
\* log_path.write_text, and the optional DB insert ("off": no DB configured).
LogEnv == [mkdir : BOOLEAN, write : BOOLEAN, db : {"off", "ok", "fail"}]

\* log_action with the DB block outside its try: a failed insert raises
log_action_DbRaises(env) ==
  IF ~env.mkdir
  THEN [raised |-> TRUE, sink |-> "none", db_row |-> FALSE]
  ELSE [raised |-> env.db = "fail",
        sink |-> IF env.write THEN "file" ELSE "console",
        db_row |-> env.db = "ok"]

\* log_action: the mkdir is outside every try; a failed write_text falls back
\* to print; a failed DB insert is swallowed.
\*   raised: the call raised to its caller
\*   sink:   where the entry went ("file", "console", or "none")
\*   db_row: a row was inserted in the events table
log_action(env) ==
  IF ~env.mkdir
  THEN [raised |-> TRUE, sink |-> "none", db_row |-> FALSE]
  ELSE [raised |-> FALSE,
        sink |-> IF env.write THEN "file" ELSE "console",
        db_row |-> env.db = "ok"]

\* every result one log_action call can have, with the relational sink
\* enabled (each insert commits or fails) or absent
LogResultsOf(enabled) ==
  {log_action(env) : env \in {e \in LogEnv : (e.db = "off") <=> ~enabled}}

\* number of audit entries a log_action call produced
Entries(lg) == IF lg.sink = "none" THEN 0 ELSE 1

\* --------------------------------------------------------------- documents
NoFile == [type |-> "none"]
Task(text) == [type |-> "task", text |-> text]
Exists(doc) == doc # NoFile

\* filenames of a folder in the opposite of sorted order
RECURSIVE SortedSeq_Descending(_)
SortedSeq_Descending(S) ==
  IF S = {} THEN <<>>
  ELSE LET m == CHOOSE x \in S : \A y \in S : x >= y
       IN  <<m>> \o SortedSeq_Descending(S \ {m})

\* filenames of a folder in sorted order
RECURSIVE SortedSeq(_)
SortedSeq(S) ==
  IF S = {} THEN <<>>
  ELSE LET m == CHOOSE x \in S : \A y \in S : x <= y
       IN  <<m>> \o SortedSeq(S \ {m})

Names(folder) == {f \in Files : Exists(folder[f])}

\* -------------------------------------------------------------- file store
\* Every operation takes the results lg1 (success path) and lg2 (failure path)
\* of its log_action calls and yields what it returned (ret), whether it
\* raised, how many audit entries it produced, the sink and success flag of
\* its last entry, and its effect on the file.

\* list_tasks(folder): no audit entry at all when the folder is absent
list_tasks(is_dir, folder, lg) ==
  IF ~is_dir
  THEN [ret |-> <<>>, raised |-> FALSE, audits |-> 0, log |-> "none", success |-> TRUE]
  ELSE [ret |-> SortedSeq(Names(folder)), raised |-> lg.raised,
        audits |-> Entries(lg), log |-> lg.sink, success |-> TRUE]

\* read_task(file_path): io is whether read_text succeeds on an existing file
read_task(doc, io, lg1, lg2) ==
  LET ok == Exists(doc) /\ io
  IN  IF ok /\ ~lg1.raised
      THEN [ret |-> strip(doc.text), raised |-> FALSE, audits |-> Entries(lg1),
            log |-> lg1.sink, success |-> TRUE]
      ELSE [ret |-> <<>>, raised |-> lg2.raised, audits |-> Entries(lg2),
            log |-> lg2.sink, success |-> FALSE]

\* write_task(file_path, content): io is whether mkdir and write_text succeed
\* (a failed write leaves the destination as it was)
write_task(io, lg1, lg2) ==
  IF io /\ ~lg1.raised
      THEN [ret |-> TRUE, raised |-> FALSE, audits |-> Entries(lg1),
            log |-> lg1.sink, success |-> TRUE, written |-> TRUE]
      ELSE [ret |-> FALSE, raised |-> lg2.raised, audits |-> Entries(lg2),
            log |-> lg2.sink, success |-> FALSE, written |-> io]

\* What shutil.move does to an existing file: os.rename succeeds ("moved"); it
\* fails and so does the copy it falls back to ("failed"); or the copy succeeds
\* and the os.unlink of the source then fails ("copied").
MoveResults == {"moved", "failed", "copied"}

\* move_task(src, dst): effect is what became of the two paths
move_task(src, io, lg1, lg2) ==
  IF ~Exists(src)
  THEN [ret |-> FALSE, raised |-> lg2.raised, audits |-> Entries(lg2),
        log |-> lg2.sink, success |-> FALSE, effect |-> "none"]
  ELSE IF io = "moved" /\ ~lg1.raised
  THEN [ret |-> TRUE, raised |-> FALSE, audits |-> Entries(lg1),
        log |-> lg1.sink, success |-> TRUE, effect |-> "moved"]
  ELSE [ret |-> FALSE, raised |-> lg2.raised, audits |-> Entries(lg2),
        log |-> lg2.sink, success |-> FALSE,
        effect |-> IF io = "failed" THEN "none" ELSE io]

\* the source and destination folders after a move_task of file n
MoveSrc(r, src, n) == IF r.effect = "moved" THEN [src EXCEPT ![n] = NoFile] ELSE src
MoveDst(r, src, dst, n) == IF r.effect = "none" THEN dst ELSE [dst EXCEPT ![n] = src[n]]

\* delete_task(file_path): unlink(missing_ok=True)
delete_task(io, lg1, lg2) ==
  IF io /\ ~lg1.raised
      THEN [ret |-> TRUE, raised |-> FALSE, audits |-> Entries(lg1),
            log |-> lg1.sink, success |-> TRUE, deleted |-> TRUE]
      ELSE [ret |-> FALSE, raised |-> lg2.raised, audits |-> Entries(lg2),
            log |-> lg2.sink, success |-> FALSE, deleted |-> io]

\* ------------------------------------------------------------- summarizer
\* What the external chat-completion call does
Replies == {"text", "blank", "error"}

\* the summarizer without its no-credential branch: the call is always made
openai_summarize_NoFallback(configured, reply, lg1, lg2) ==
  IF reply # "error" /\ ~lg1.raised
  THEN [ret |-> IF reply = "blank" THEN "openai_empty" ELSE "openai_ok",
        raised |-> FALSE, audits |-> Entries(lg1), log |-> lg1.sink,
        action |-> IF reply = "blank" THEN "openai_empty" ELSE "openai_success",
        success |-> TRUE, called |-> TRUE]
  ELSE [ret |-> "openai_error", raised |-> lg2.raised, audits |-> Entries(lg2),
        log |-> lg2.sink, action |-> "openai_error", success |-> FALSE,
        called |-> TRUE]

\* openai_summarize(prompt): configured is `api_key and OpenAI is not None`;
\* the log_action calls of the ok and empty branches are inside the try.
openai_summarize(configured, reply, lg1, lg2) ==
  IF ~configured
  THEN [ret |-> "fallback", raised |-> lg1.raised, audits |-> Entries(lg1),
        log |-> lg1.sink, action |-> "openai_fallback", success |-> TRUE,
        called |-> FALSE]
  ELSE IF reply # "error" /\ ~lg1.raised
  THEN [ret |-> IF reply = "blank" THEN "openai_empty" ELSE "openai_ok",
        raised |-> FALSE, audits |-> Entries(lg1), log |-> lg1.sink,
        action |-> IF reply = "blank" THEN "openai_empty" ELSE "openai_success",
        success |-> TRUE, called |-> TRUE]
  ELSE [ret |-> "openai_error", raised |-> lg2.raised, audits |-> Entries(lg2),
        log |-> lg2.sink, action |-> "openai_error", success |-> FALSE,
        called |-> TRUE]

\* the text returned with each status tag (gold_agent.py 96-125)
Summary(st) ==
  CASE st = "fallback" -> "fallback: OpenAI not configured"
    [] st = "openai_ok" -> "reply"
    [] st = "openai_empty" -> "Summary generated but empty response."
    [] OTHER -> "OpenAI error - graceful fallback"

\* ------------------------------------------------------- output documents
\* the document without its Original Content section
Processed_SummaryOnly(dom, ts, st, orig) ==
  [type |-> "processed", domain |-> dom, processed |-> ts, status |-> st,
   original |-> <<>>, summary |-> Summary(st), marker |-> "Status: Completed"]

\* the document process_task composes (gold_agent.py 167-178)
Processed(dom, ts, st, orig) ==
  [type |-> "processed", domain |-> dom, processed |-> ts, status |-> st,
   original |-> orig, summary |-> Summary(st), marker |-> "Status: Completed"]

\* the terminal-failure document (gold_agent.py 267-272)
Failed(ts) ==
  [type |-> "failed", error |-> MAX_RETRIES, time |-> ts,
   marker |-> "Status: Failed"]

\* ------------------------------------------------------------ run recorder
\* What the insert of db_start_run does: the row is committed and refreshed
\* ("committed"), committed but the refresh that yields its id raises
\* ("no_id"), or add/commit raises ("failed").
DbOutcomes == {"committed", "no_id", "failed"}

\* no agent_runs row, run_id = None
NoRun ==
  [created |-> 0, updated |-> 0, loops |-> 0, processed |-> 0, failed |-> 0,
   run_id |-> FALSE]

\* db_start_run(): the row after the call; run_id is whether an id came back
db_start_run(enabled, out, row) ==
  IF ~enabled \/ out = "failed"
  THEN row
  ELSE [created |-> row.created + 1, updated |-> row.updated, loops |-> 0,
        processed |-> 0, failed |-> 0, run_id |-> out = "committed"]

\* the update that leaves the failed counter as it was
db_finish_run_TwoCounters(enabled, ok, row, st) ==
  IF ~enabled \/ ~ok
  THEN row
  ELSE [row EXCEPT !.updated = @ + 1, !.loops = st.loops,
                   !.processed = st.tasks_processed]

\* db_finish_run(run_id, stats): ok is whether query and commit succeed
db_finish_run(enabled, ok, row, st) ==
  IF ~enabled \/ ~ok
  THEN row
  ELSE [row EXCEPT !.updated = @ + 1, !.loops = st.loops,
                   !.processed = st.tasks_processed,
                   !.failed = st.tasks_failed]

\* ------------------------------------------------------------------ state
VARIABLES
  inbox,              \* Inbox/        : filename -> document
  needs,              \* Needs_Action/ : filename -> document
  done,               \* Done/         : filename -> document
  business,           \* Business/     : filename -> document
  personal,           \* Personal/     : filename -> document
  openai_configured,  \* OPENAI_API_KEY set and the client library imported
  is_dir,             \* Needs_Action/ exists as a directory
  db_ok,              \* _db_ok: DATABASE_URL set and the events table reachable
  agent_run,          \* the agent_runs row of this run and main's run_id
  clock,              \* what utc_ts() reads, in units of LOOP_DELAY
  stats,              \* loops, tasks_processed, tasks_failed, retries
  pc,                 \* position of control in ralph_wiggum_loop
  files,              \* stage_inbox: names still to move
  pending,            \* process stage: names of the snapshot still to visit
  name,               \* the file the process stage is at
  original,           \* process_task: what read_task returned
  domain,             \* process_task: what classify_task returned
  status,             \* process_task: the status tag of openai_summarize
  success,            \* what process_task returned
  last_log,           \* the log_action call of the latest step (NoLog: none)
  call,               \* the audited operation of the latest step: entries produced
  events,             \* terminal audit events emitted by this run
  late,               \* files that arrive while the run is under way
  attempts,           \* filename -> number of process_task calls in this run
  first_loop,         \* filename -> iteration whose snapshot first listed it
  listed,             \* filename -> number of snapshots that listed it
  failures,           \* filename -> number of process_task calls that failed
  run,                \* number of this call of ralph_wiggum_loop (1: the first)
  carried,            \* the retry map the previous call ended with
  faults              \* failures and degraded outcomes the environment has dealt

vars ==
  <<inbox, needs, done, business, personal, openai_configured, is_dir, db_ok,
    agent_run, clock, stats,
    pc, files, pending, name, original, domain, status, success, last_log,
    call, events, late, attempts, first_loop, listed, failures, run, carried,
    faults>>

folders == <<inbox, needs, done, business, personal>>
config == <<openai_configured, is_dir, db_ok, agent_run>>
locals == <<files, pending, name, original, domain, status, success>>
history == <<attempts, first_loop, listed, failures, run, carried>>

\* the texts task files hold
TaskTexts == {TxtBlank, TxtGym}
TaskDocs == {Task(t) : t \in TaskTexts}
EmptyFolder == [f \in Files |-> NoFile]

\* classify_task tabulated over what read_task can return for these texts
Classified == [t \in {strip(x) : x \in TaskTexts} |-> classify_task(t)]

\* stats["retries"].get(name, 0)
Get(retries, n) == IF n \in DOMAIN retries THEN retries[n] ELSE 0

\* stats["retries"][name] = v
Put(retries, n, v) ==
  [f \in DOMAIN retries \cup {n} |-> IF f = n THEN v ELSE retries[f]]

\* the stats a call would start with if the retry map outlived the call
FreshStats_Persistent ==
  [loops |-> 0, tasks_processed |-> 0, tasks_failed |-> 0, retries |-> carried]

\* 230-235: the stats dict every call of ralph_wiggum_loop creates
FreshStats ==
  [loops |-> 0, tasks_processed |-> 0, tasks_failed |-> 0, retries |-> <<>>]

NoLog == [action |-> "none", success |-> TRUE, sink |-> "none"]
NoCall == [op |-> "none", audits |-> 0]

\* the state in which control is at `start`, with the relational store
\* enabled or not
InitAt(enabled, start) ==
  /\ inbox \in [Files -> TaskDocs \cup {NoFile}]
  /\ needs \in [Files -> TaskDocs \cup {NoFile}]
  /\ late \in [Files -> TaskDocs \cup {NoFile}]
  /\ \A f \in Files :
       Cardinality({F \in {"i", "n", "l"} :
          Exists((CASE F = "i" -> inbox [] F = "n" -> needs [] OTHER -> late)[f])}) <= 1
  /\ Cardinality(Names(late)) <= MaxArrivals
  /\ done = EmptyFolder
  /\ business = EmptyFolder
  /\ personal = EmptyFolder
  /\ openai_configured \in BOOLEAN
  /\ is_dir = TRUE
  /\ db_ok = enabled
  /\ agent_run = NoRun
  /\ clock = 0
  /\ run = 1
  /\ carried = <<>>
  /\ stats = FreshStats
  /\ pc = start
  /\ files = <<>>
  /\ pending = <<>>
  /\ name = 0
  /\ original = <<>>
  /\ domain = "none"
  /\ status = "none"
  /\ success = FALSE
  /\ last_log = NoLog
  /\ call = NoCall
  /\ events = [loop_complete |-> 0, loop_max_reached |-> 0]
  /\ attempts = [f \in Files |-> 0]
  /\ first_loop = [f \in Files |-> 0]
  /\ listed = [f \in Files |-> 0]
  /\ failures = [f \in Files |-> 0]
  /\ faults = 0

\* the state in which ralph_wiggum_loop is called
InitWith(enabled) == InitAt(enabled, "loop_start")

\* the state at the call of ralph_wiggum_loop, no DATABASE_URL configured
Init == InitWith(FALSE)

\* ---------------------------------------------------------------- helpers
\* the entry a bare log_action(AGENT_NAME, action, ..., success) call leaves
Logged(action, ok, lg) ==
  last_log' = [action |-> action, success |-> ok, sink |-> lg.sink]

\* the entry a file-store call leaves: op on success, op_error on failure
OpLogged(op, op_error, r) ==
  last_log' = [action |-> IF r.success THEN op ELSE op_error,
               success |-> r.success, sink |-> r.log]

Called(op, r) == call' = [op |-> op, audits |-> r.audits]

\* The environment: every primitive that can fail draws its outcome; a run
\* meets at most MaxFaults outcomes other than the nominal one (an I/O error, a
\* log_action that raises or falls back to the console, a summarizer reply
\* that is blank or an error).
Nominal == log_action([mkdir |-> TRUE, write |-> TRUE, db |-> "off"])

\* the results of the log_action calls of this run
LogResults == LogResultsOf(db_ok)
IoCost(ok) == IF ok THEN 0 ELSE 1
LogCost(lg) == IF lg.raised \/ lg.sink = "console" THEN 1 ELSE 0
MoveCost(io) == IF io = "moved" THEN 0 ELSE 1
ReplyCost(reply) == IF reply = "text" THEN 0 ELSE 1

Spend(cost) ==
  /\ faults + cost <= MaxFaults
  /\ faults' = faults + cost

\* of a call with a success path (io, then lg1) and a failure path (lg2), the
\* outcomes of the primitives it never reaches are left nominal
OnePath(io, lg1, lg2) ==
  /\ (~io => lg1 = Nominal)
  /\ (io /\ ~lg1.raised => lg2 = Nominal)

\* where an exception goes: to process_task's except clause, or out of the run
Raise(in_try) == IF in_try THEN "task_error" ELSE "crashed"

\* ------------------------------------------------------ ralph_wiggum_loop
\* 230-239: fresh stats, then the loop_start audit
LoopStart(LR) ==
  /\ pc = "loop_start"
  /\ \E lg \in LR :
       /\ Spend(LogCost(lg))
       /\ Logged("loop_start", TRUE, lg)
       /\ pc' = IF lg.raised THEN Raise(FALSE) ELSE "for_loop"
  /\ stats' = FreshStats
  /\ call' = NoCall
  /\ UNCHANGED <<folders, config, clock, locals, events,
                 late, history>>

\* the for loop running over range(1, MAX_LOOPS + 2)
ForLoop_OneMore ==
  /\ pc = "for_loop"
  /\ IF stats.loops <= MAX_LOOPS
     THEN /\ stats' = [stats EXCEPT !.loops = @ + 1]
          /\ pc' = "stage_inbox"
     ELSE /\ pc' = "loop_max"
          /\ UNCHANGED stats
  /\ last_log' = NoLog
  /\ call' = NoCall
  /\ UNCHANGED <<faults, folders, config, clock, locals, events,
                 late, history>>

\* 241-242: the next loop_num, or the for loop's else clause
ForLoop ==
  /\ pc = "for_loop"
  /\ IF stats.loops < MAX_LOOPS
     THEN /\ stats' = [stats EXCEPT !.loops = @ + 1]
          /\ pc' = "stage_inbox"
     ELSE /\ pc' = "loop_max"
          /\ UNCHANGED stats
  /\ last_log' = NoLog
  /\ call' = NoCall
  /\ UNCHANGED <<faults, folders, config, clock, locals, events,
                 late, history>>

\* stage_inbox 132-136: the two mkdirs and list_tasks(INBOX)
StageInbox(LR) ==
  /\ pc = "stage_inbox"
  /\ \E mk \in BOOLEAN, lg \in LR :
       /\ Spend(IoCost(mk) + LogCost(lg))
       /\ (~mk => lg = Nominal)
       /\ IF ~mk
          THEN /\ pc' = Raise(FALSE)
               /\ last_log' = NoLog
               /\ call' = NoCall
               /\ UNCHANGED files
          ELSE LET r == list_tasks(TRUE, inbox, lg)
               IN  /\ OpLogged("list_tasks", "list_tasks", r)
                   /\ Called("list_tasks", r)
                   /\ files' = IF r.raised THEN files ELSE r.ret
                   /\ pc' = IF r.raised THEN Raise(FALSE) ELSE "inbox_move"
  /\ UNCHANGED <<folders, config, clock, stats, pending, name,
                 original, domain, status, success, events, late, history>>

\* stage_inbox 137-143: one turn of the for loop (move_task, then append_log)
InboxMove(LR) ==
  /\ pc = "inbox_move"
  /\ IF files = <<>>
     THEN /\ pc' = "list_pending"
          /\ last_log' = NoLog
          /\ call' = NoCall
          /\ UNCHANGED <<inbox, needs, files, faults>>
     ELSE \E io \in MoveResults, lg1 \in LR, lg2 \in LR,
             append \in BOOLEAN :
            /\ Spend(MoveCost(io) + LogCost(lg1) + LogCost(lg2) + IoCost(append))
            /\ OnePath(io = "moved", lg1, lg2)
            /\ (~(io = "moved" /\ ~lg1.raised) => append)
            /\ LET n == Head(files)
                   r == move_task(inbox[n], io, lg1, lg2)
               IN  /\ inbox' = MoveSrc(r, inbox, n)
                   /\ needs' = MoveDst(r, inbox, needs, n)
                   /\ OpLogged("move_task", "move_task_error", r)
                   /\ Called("move_task", r)
                   /\ IF r.raised \/ (r.ret /\ ~append)
                      THEN pc' = Raise(FALSE) /\ UNCHANGED files
                      ELSE pc' = "inbox_move" /\ files' = Tail(files)
  /\ UNCHANGED <<done, business, personal, config, clock, stats,
                 pending, name, original, domain, status, success, events,
                 late, history>>

\* 251-257: the snapshot of Needs_Action
ListPending(LR) ==
  /\ pc = "list_pending"
  /\ \E lg \in LR :
       /\ Spend(LogCost(lg))
       /\ LET r == list_tasks(is_dir, needs, lg)
          IN  /\ OpLogged("list_tasks", "list_tasks", r)
              /\ Called("list_tasks", r)
              /\ IF r.raised
                 THEN pc' = Raise(FALSE) /\ UNCHANGED <<pending, first_loop, listed>>
                 ELSE /\ pending' = r.ret
                      /\ pc' = IF r.ret = <<>> THEN "loop_complete" ELSE "for_pending"
                      /\ first_loop' =
                           [f \in Files |->
                              IF Exists(needs[f]) /\ first_loop[f] = 0
                              THEN stats.loops ELSE first_loop[f]]
                      /\ listed' =
                           [f \in Files |->
                              IF Exists(needs[f]) THEN listed[f] + 1
                              ELSE listed[f]]
  /\ UNCHANGED <<folders, config, clock, stats, files, name,
                 original, domain, status, success, events, late, attempts,
                 failures, run, carried>>

\* 253-255 and 291-293: the loop_complete audit, then break
LoopComplete(LR) ==
  /\ pc = "loop_complete"
  /\ \E lg \in LR :
       /\ Spend(LogCost(lg))
       /\ Logged("loop_complete", TRUE, lg)
       /\ events' = IF lg.raised THEN events
                    ELSE [events EXCEPT !.loop_complete = @ + 1]
       /\ pc' = IF lg.raised THEN Raise(FALSE) ELSE "return"
  /\ call' = NoCall
  /\ UNCHANGED <<folders, config, clock, stats, locals, late,
                 history>>

\* the pre-check that lets one more attempt through
MaxRetriesReachedFor_Late(retry_count) == retry_count > MAX_RETRIES

\* 263: if retry_count >= MAX_RETRIES
MaxRetriesReachedFor(retry_count) == retry_count >= MAX_RETRIES

\* 260-263 and 280: the next name of the snapshot and its retry pre-check
ForPending ==
  /\ pc = "for_pending"
  /\ IF pending = <<>>
     THEN /\ pc' = "list_remaining"
          /\ name' = 0
          /\ UNCHANGED <<pending, attempts>>
     ELSE /\ name' = Head(pending)
          /\ pending' = Tail(pending)
          /\ IF MaxRetriesReachedFor(Get(stats.retries, Head(pending)))
             THEN pc' = "max_retries" /\ UNCHANGED attempts
             ELSE /\ pc' = "pt_read"
                  /\ attempts' = [attempts EXCEPT ![Head(pending)] = @ + 1]
  /\ last_log' = NoLog
  /\ call' = NoCall
  /\ UNCHANGED <<faults, folders, config, clock, stats, files,
                 original, domain, status, success, events, late, first_loop,
                 listed, failures, run, carried>>

\* 264-265: the max_retries_reached audit
MaxRetriesReached(LR) ==
  /\ pc = "max_retries"
  /\ \E lg \in LR :
       /\ Spend(LogCost(lg))
       /\ Logged("max_retries_reached", FALSE, lg)
       /\ pc' = IF lg.raised THEN Raise(FALSE) ELSE "fail_write"
  /\ call' = NoCall
  /\ UNCHANGED <<folders, config, clock, stats, locals, events,
                 late, history>>

\* 267-273: write the terminal-failure document; the result is not looked at
FailWrite(LR) ==
  /\ pc = "fail_write"
  /\ \E io \in BOOLEAN, lg1 \in LR, lg2 \in LR :
       /\ Spend(IoCost(io) + LogCost(lg1) + LogCost(lg2))
       /\ OnePath(io, lg1, lg2)
       /\ LET r == write_task(io, lg1, lg2)
          IN  /\ done' = IF r.written THEN [done EXCEPT ![name] = Failed(clock)]
                         ELSE done
              /\ OpLogged("write_task", "write_task_error", r)
              /\ Called("write_task", r)
              /\ pc' = IF r.raised THEN Raise(FALSE) ELSE "fail_unlink"
  /\ UNCHANGED <<inbox, needs, business, personal, config, clock,
                 stats, locals, events, late, history>>

\* 274-278: unlink the source if it exists, count the failure, continue
FailUnlink ==
  /\ pc = "fail_unlink"
  /\ \E io \in BOOLEAN :
       /\ Spend(IoCost(io))
       /\ (~Exists(needs[name]) => io)
       /\ IF Exists(needs[name]) /\ ~io
          THEN pc' = Raise(FALSE) /\ UNCHANGED <<needs, stats>>
          ELSE /\ needs' = [needs EXCEPT ![name] = NoFile]
               /\ stats' = [stats EXCEPT !.tasks_failed = @ + 1]
               /\ pc' = "for_pending"
  /\ last_log' = NoLog
  /\ call' = NoCall
  /\ UNCHANGED <<inbox, done, business, personal, config, clock,
                 locals, events, late, history>>

\* ------------------------------------------------------------ process_task
\* 149-154: read_task(file_path) and the emptiness test
PTRead(LR) ==
  /\ pc = "pt_read"
  /\ \E io \in BOOLEAN, lg1 \in LR, lg2 \in LR :
       /\ Spend(IoCost(io) + LogCost(lg1) + LogCost(lg2))
       /\ OnePath(io, lg1, lg2)
       /\ LET r == read_task(needs[name], io, lg1, lg2)
          IN  /\ OpLogged("read_task", "read_task_error", r)
              /\ Called("read_task", r)
              /\ original' = IF r.raised THEN original ELSE r.ret
              /\ pc' = IF r.raised THEN Raise(TRUE)
                       ELSE IF r.ret = <<>> THEN "pt_skip" ELSE "pt_classify"
  /\ UNCHANGED <<folders, config, clock, stats, files, pending,
                 name, domain, status, success, events, late, history>>

\* 155: the skip_empty_task audit
PTSkipEmpty(LR) ==
  /\ pc = "pt_skip"
  /\ \E lg \in LR :
       /\ Spend(LogCost(lg))
       /\ Logged("skip_empty_task", TRUE, lg)
       /\ pc' = IF lg.raised THEN Raise(TRUE) ELSE "pt_skip_move"
  /\ call' = NoCall
  /\ UNCHANGED <<folders, config, clock, stats, locals, events,
                 late, history>>

\* 156-157: move the source to Done (result not looked at) and return True
PTSkipMove(LR) ==
  /\ pc = "pt_skip_move"
  /\ \E io \in MoveResults, lg1 \in LR, lg2 \in LR :
       /\ Spend(MoveCost(io) + LogCost(lg1) + LogCost(lg2))
       /\ OnePath(io = "moved", lg1, lg2)
       /\ LET r == move_task(needs[name], io, lg1, lg2)
          IN  /\ needs' = MoveSrc(r, needs, name)
              /\ done' = MoveDst(r, needs, done, name)
              /\ OpLogged("move_task", "move_task_error", r)
              /\ Called("move_task", r)
              /\ success' = IF r.raised THEN success ELSE TRUE
              /\ pc' = IF r.raised THEN Raise(TRUE) ELSE "after_task"
  /\ UNCHANGED <<inbox, business, personal, config, clock, stats,
                 files, pending, name, original, domain, status, events, late,
                 history>>

\* 160: domain = classify_task(original)
PTClassify(LR) ==
  /\ pc = "pt_classify"
  /\ \E lg \in LR :
       /\ Spend(LogCost(lg))
       /\ Logged("classify_task", TRUE, lg)
       /\ call' = [op |-> "classify_task", audits |-> Entries(lg)]
       /\ domain' = IF lg.raised THEN domain ELSE Classified[original]
       /\ pc' = IF lg.raised THEN Raise(TRUE) ELSE "pt_summarize"
  /\ UNCHANGED <<folders, config, clock, stats, files, pending,
                 name, original, status, success, events, late, history>>

\* 163-164: summary, status = openai_summarize(build_prompt(original, domain))
PTSummarize(LR) ==
  /\ pc = "pt_summarize"
  /\ \E reply \in Replies, lg1 \in LR, lg2 \in LR :
       /\ Spend(ReplyCost(reply) + LogCost(lg1) + LogCost(lg2))
       /\ (~openai_configured => reply = "text")
       /\ OnePath(~openai_configured \/ reply # "error", lg1, lg2)
       /\ (~openai_configured => lg2 = Nominal)
       /\ LET r == openai_summarize(openai_configured, reply, lg1, lg2)
          IN  /\ last_log' = [action |-> r.action, success |-> r.success,
                              sink |-> r.log]
              /\ Called("openai_summarize", r)
              /\ status' = IF r.raised THEN status ELSE r.ret
              /\ pc' = IF r.raised THEN Raise(TRUE) ELSE "pt_write_done"
  /\ UNCHANGED <<folders, config, clock, stats, files, pending,
                 name, original, domain, success, events, late, history>>

\* 166-183: compose the output, DONE.mkdir, write_task(dest, output); the
\* result of write_task is not looked at
PTWriteDone(LR) ==
  /\ pc = "pt_write_done"
  /\ \E mk \in BOOLEAN, io \in BOOLEAN, lg1 \in LR, lg2 \in LR :
       /\ Spend(IoCost(mk) + IoCost(io) + LogCost(lg1) + LogCost(lg2))
       /\ OnePath(io, lg1, lg2)
       /\ (~mk => io /\ lg1 = Nominal)
       /\ IF ~mk
          THEN /\ pc' = Raise(TRUE)
               /\ last_log' = NoLog
               /\ call' = NoCall
               /\ UNCHANGED done
          ELSE LET r == write_task(io, lg1, lg2)
               IN  /\ done' = IF r.written
                              THEN [done EXCEPT ![name] =
                                      Processed(domain, clock, status, original)]
                              ELSE done
                   /\ OpLogged("write_task", "write_task_error", r)
                   /\ Called("write_task", r)
                   /\ pc' = IF r.raised THEN Raise(TRUE) ELSE "pt_route"
  /\ UNCHANGED <<inbox, needs, business, personal, config, clock,
                 stats, locals, events, late, history>>

\* 186: route_task = classify_task (audited), target.mkdir, route_task audit
PTRoute(LR) ==
  /\ pc = "pt_route"
  /\ \E lg1 \in LR, mk \in BOOLEAN, lg2 \in LR :
       /\ Spend(LogCost(lg1) + IoCost(mk) + LogCost(lg2))
       /\ (lg1.raised => mk)
       /\ (lg1.raised \/ ~mk => lg2 = Nominal)
       /\ call' = [op |-> "classify_task", audits |-> Entries(lg1)]
       /\ IF lg1.raised \/ ~mk
          THEN Logged("classify_task", TRUE, lg1) /\ pc' = Raise(TRUE)
          ELSE /\ Logged("route_task", TRUE, lg2)
               /\ pc' = IF lg2.raised THEN Raise(TRUE) ELSE "pt_write_domain"
  /\ UNCHANGED <<folders, config, clock, stats, locals, events,
                 late, history>>

\* 187: the archival copy in Business/ or Personal/
PTWriteDomain(LR) ==
  /\ pc = "pt_write_domain"
  /\ \E io \in BOOLEAN, lg1 \in LR, lg2 \in LR :
       /\ Spend(IoCost(io) + LogCost(lg1) + LogCost(lg2))
       /\ OnePath(io, lg1, lg2)
       /\ LET r == write_task(io, lg1, lg2)
              out == Processed(domain, clock, status, original)
              dir == Classified[original]
          IN  /\ business' = IF r.written /\ dir = "business"
                             THEN [business EXCEPT ![name] = out] ELSE business
              /\ personal' = IF r.written /\ dir # "business"
                             THEN [personal EXCEPT ![name] = out] ELSE personal
              /\ OpLogged("write_task", "write_task_error", r)
              /\ Called("write_task", r)
              /\ pc' = IF r.raised THEN Raise(TRUE) ELSE "pt_unlink"
  /\ UNCHANGED <<inbox, needs, done, config, clock, stats, locals,
                 events, late, history>>

\* 189-191: unlink the source if it exists
PTUnlink ==
  /\ pc = "pt_unlink"
  /\ \E io \in BOOLEAN :
       /\ Spend(IoCost(io))
       /\ (~Exists(needs[name]) => io)
       /\ IF Exists(needs[name]) /\ ~io
          THEN pc' = Raise(TRUE) /\ UNCHANGED needs
          ELSE /\ needs' = [needs EXCEPT ![name] = NoFile]
               /\ pc' = "pt_append_log"
  /\ last_log' = NoLog
  /\ call' = NoCall
  /\ UNCHANGED <<inbox, done, business, personal, config, clock,
                 stats, locals, events, late, history>>

\* 194: append_log to run_log.md
PTAppendLog ==
  /\ pc = "pt_append_log"
  /\ \E io \in BOOLEAN :
       /\ Spend(IoCost(io))
       /\ pc' = IF io THEN "pt_prompt_history" ELSE Raise(TRUE)
  /\ last_log' = NoLog
  /\ call' = NoCall
  /\ UNCHANGED <<folders, config, clock, stats, locals, events,
                 late, history>>

\* 197-203: append to prompt_history.md
PTPromptHistory ==
  /\ pc = "pt_prompt_history"
  /\ \E io \in BOOLEAN :
       /\ Spend(IoCost(io))
       /\ pc' = IF io THEN "pt_completed" ELSE Raise(TRUE)
  /\ last_log' = NoLog
  /\ call' = NoCall
  /\ UNCHANGED <<folders, config, clock, stats, locals, events,
                 late, history>>

\* 205-208: the task_completed audit, return True
PTCompleted(LR) ==
  /\ pc = "pt_completed"
  /\ \E lg \in LR :
       /\ Spend(LogCost(lg))
       /\ Logged("task_completed", TRUE, lg)
       /\ success' = IF lg.raised THEN success ELSE TRUE
       /\ pc' = IF lg.raised THEN Raise(TRUE) ELSE "after_task"
  /\ call' = NoCall
  /\ UNCHANGED <<folders, config, clock, stats, files, pending,
                 name, original, domain, status, events, late, history>>

\* 210-215: the except clause: task_error audit, append_log, return False
PTError(LR) ==
  /\ pc = "task_error"
  /\ \E lg \in LR, append \in BOOLEAN :
       /\ Spend(LogCost(lg) + IoCost(append))
       /\ (lg.raised => append)
       /\ Logged("task_error", FALSE, lg)
       /\ IF lg.raised \/ ~append
          THEN pc' = Raise(FALSE) /\ UNCHANGED <<success, failures>>
          ELSE /\ pc' = "after_task"
               /\ success' = FALSE
               /\ failures' = [failures EXCEPT ![name] = @ + 1]
  /\ call' = NoCall
  /\ UNCHANGED <<folders, config, clock, stats, files, pending, name,
                 original, domain, status, events, late, attempts,
                 first_loop, listed, run, carried>>

\* the bookkeeping with the counter cleared by a success
Outcome_ClearOnSuccess(st, ok, n) ==
  IF ok
  THEN [st EXCEPT !.tasks_processed = @ + 1,
                  !.retries = [f \in DOMAIN @ \ {n} |-> @[f]]]
  ELSE [st EXCEPT !.retries = Put(@, n, Get(st.retries, n) + 1)]

\* 281-286: stats after process_task(n) returned ok
Outcome(st, ok, n) ==
  IF ok
  THEN [st EXCEPT !.tasks_processed = @ + 1]
  ELSE [st EXCEPT !.retries = Put(@, n, Get(st.retries, n) + 1)]

\* 280-286: count the success, or record one more retry for the file; the
\* frame of process_task is gone
AfterTask ==
  /\ pc = "after_task"
  /\ stats' = Outcome(stats, success, name)
  /\ pc' = "for_pending"
  /\ original' = <<>>
  /\ domain' = "none"
  /\ status' = "none"
  /\ success' = FALSE
  /\ last_log' = NoLog
  /\ call' = NoCall
  /\ UNCHANGED <<faults, folders, config, clock, files, pending,
                 name, events, late, history>>

\* 288-296: the re-check, then time.sleep(LOOP_DELAY)
ListRemaining(LR) ==
  /\ pc = "list_remaining"
  /\ \E lg \in LR :
       /\ Spend(LogCost(lg))
       /\ LET r == list_tasks(is_dir, needs, lg)
          IN  /\ OpLogged("list_tasks", "list_tasks", r)
              /\ Called("list_tasks", r)
              /\ pc' = IF r.raised THEN Raise(FALSE)
                       ELSE IF r.ret = <<>> THEN "loop_complete" ELSE "for_loop"
              /\ clock' = IF ~r.raised /\ r.ret # <<>> THEN clock + LOOP_DELAY
                          ELSE clock
  /\ UNCHANGED <<folders, config, stats, locals, events, late,
                 history>>

\* 298-300: the for loop's else clause
LoopMaxReached(LR) ==
  /\ pc = "loop_max"
  /\ \E lg \in LR :
       /\ Spend(LogCost(lg))
       /\ Logged("loop_max_reached", TRUE, lg)
       /\ events' = IF lg.raised THEN events
                    ELSE [events EXCEPT !.loop_max_reached = @ + 1]
       /\ pc' = IF lg.raised THEN Raise(FALSE) ELSE "return"
  /\ call' = NoCall
  /\ UNCHANGED <<folders, config, clock, stats, locals, late,
                 history>>

\* ------------------------------------------------------------ environment
\* a new task file is dropped into Inbox/ or Needs_Action/ during the run
Arrive(f) ==
  /\ pc \in {"stage_inbox", "list_pending", "for_pending"}
  /\ Exists(late[f])
  /\ late' = [late EXCEPT ![f] = NoFile]
  /\ \/ inbox' = [inbox EXCEPT ![f] = late[f]] /\ UNCHANGED needs
     \/ needs' = [needs EXCEPT ![f] = late[f]] /\ UNCHANGED inbox
  /\ UNCHANGED <<faults, done, business, personal, config, clock, stats,
                 pc, locals, last_log, call, events, history>>

Next ==
  \/ LoopStart(LogResults)
  \/ ForLoop
  \/ StageInbox(LogResults)
  \/ InboxMove(LogResults)
  \/ ListPending(LogResults)
  \/ LoopComplete(LogResults)
  \/ ForPending
  \/ MaxRetriesReached(LogResults)
  \/ FailWrite(LogResults)
  \/ FailUnlink
  \/ PTRead(LogResults)
  \/ PTSkipEmpty(LogResults)
  \/ PTSkipMove(LogResults)
  \/ PTClassify(LogResults)
  \/ PTSummarize(LogResults)
  \/ PTWriteDone(LogResults)
  \/ PTRoute(LogResults)
  \/ PTWriteDomain(LogResults)
  \/ PTUnlink
  \/ PTAppendLog
  \/ PTPromptHistory
  \/ PTCompleted(LogResults)
  \/ PTError(LogResults)
  \/ AfterTask
  \/ ListRemaining(LogResults)
  \/ LoopMaxReached(LogResults)
  \/ \E f \in Files : Arrive(f)

Spec == Init /\ [][Next]_vars

\* ------------------------------------------------------- a later call
\* main() is run again after an earlier call of ralph_wiggum_loop returned:
\* the folders are as that call left them, its stats dict is gone.
Rerun ==
  /\ pc = "return"
  /\ run < MaxRuns
  /\ run' = run + 1
  /\ carried' = stats.retries
  /\ pc' = "loop_start"
  /\ events' = [loop_complete |-> 0, loop_max_reached |-> 0]
  /\ attempts' = [f \in Files |-> 0]
  /\ first_loop' = [f \in Files |-> 0]
  /\ listed' = [f \in Files |-> 0]
  /\ failures' = [f \in Files |-> 0]
  /\ last_log' = NoLog
  /\ call' = NoCall
  /\ UNCHANGED <<folders, config, clock, stats, locals, late, faults>>

RerunNext == Next \/ Rerun

RerunSpec == Init /\ [][RerunNext]_vars

\* -------------------------------------------------------------------- main
\* 352-358: the six mkdirs and the two log files
MainSetup ==
  /\ pc = "main"
  /\ \E ok \in BOOLEAN :
       /\ Spend(IoCost(ok))
       /\ pc' = IF ok THEN "db_start_run" ELSE Raise(FALSE)
  /\ last_log' = NoLog
  /\ call' = NoCall
  /\ UNCHANGED <<folders, config, clock, stats, locals, events, late,
                 history>>

\* 362-367: run_id = db_start_run(), set_run_id
DbStartRun ==
  /\ pc = "db_start_run"
  /\ \E out \in DbOutcomes :
       /\ (~db_ok => out = "committed")
       /\ Spend(IF out = "committed" THEN 0 ELSE 1)
       /\ agent_run' = db_start_run(db_ok, out, agent_run)
  /\ pc' = "agent_start"
  /\ last_log' = NoLog
  /\ call' = NoCall
  /\ UNCHANGED <<folders, openai_configured, is_dir, db_ok, clock, stats,
                 locals, events, late, history>>

\* 375-384: the agent_start audit, then stats = ralph_wiggum_loop()
AgentStart(LR) ==
  /\ pc = "agent_start"
  /\ \E lg \in LR :
       /\ Spend(LogCost(lg))
       /\ Logged("agent_start", TRUE, lg)
       /\ pc' = IF lg.raised THEN Raise(FALSE) ELSE "loop_start"
  /\ call' = NoCall
  /\ UNCHANGED <<folders, config, clock, stats, locals, events, late,
                 history>>

\* 387-392: save_briefing() in its try; the except clause audits
SaveBriefing(LR) ==
  /\ pc = "return"
  /\ \E ok \in BOOLEAN, lg \in LR :
       /\ Spend(IoCost(ok) + LogCost(lg))
       /\ (ok => lg = Nominal)
       /\ last_log' = IF ok THEN NoLog
                      ELSE [action |-> "briefing_error", success |-> FALSE,
                            sink |-> lg.sink]
       /\ pc' = IF ~ok /\ lg.raised THEN Raise(FALSE) ELSE "db_finish_run"
  /\ call' = NoCall
  /\ UNCHANGED <<folders, config, clock, stats, locals, events, late,
                 history>>

\* 395-396: if run_id is not None: db_finish_run(run_id, stats)
DbFinishRun ==
  /\ pc = "db_finish_run"
  /\ IF agent_run.run_id
     THEN \E ok \in BOOLEAN :
            /\ Spend(IoCost(ok))
            /\ agent_run' = db_finish_run(db_ok, ok, agent_run, stats)
     ELSE UNCHANGED <<agent_run, faults>>
  /\ pc' = "agent_complete"
  /\ last_log' = NoLog
  /\ call' = NoCall
  /\ UNCHANGED <<folders, openai_configured, is_dir, db_ok, clock, stats,
                 locals, events, late, history>>

\* 411-422: the agent_complete audit, then append_log
AgentComplete(LR) ==
  /\ pc = "agent_complete"
  /\ \E lg \in LR, append \in BOOLEAN :
       /\ Spend(LogCost(lg) + IoCost(append))
       /\ (lg.raised => append)
       /\ Logged("agent_complete", TRUE, lg)
       /\ pc' = IF lg.raised \/ ~append THEN Raise(FALSE) ELSE "exit"
  /\ call' = NoCall
  /\ UNCHANGED <<folders, config, clock, stats, locals, events, late,
                 history>>

InitMain == InitAt(TRUE, "main") \/ InitAt(FALSE, "main")

MainNext ==
  \/ Next
  \/ MainSetup
  \/ DbStartRun
  \/ AgentStart(LogResults)
  \/ SaveBriefing(LogResults)
  \/ DbFinishRun
  \/ AgentComplete(LogResults)

MainSpec == InitMain /\ [][MainNext]_vars

\* ------------------------------------------- the relational sink enabled
\* The same run with _db_ok true: every log_action call that reaches the DB
\* block inserts its events row or fails to.
InitSink == InitWith(TRUE)

SinkSpec == InitSink /\ [][Next]_vars

\* one step of the run with the sink absent
NextNoSink ==
  \/ LoopStart(LogResultsOf(FALSE))
  \/ ForLoop
  \/ StageInbox(LogResultsOf(FALSE))
  \/ InboxMove(LogResultsOf(FALSE))
  \/ ListPending(LogResultsOf(FALSE))
  \/ LoopComplete(LogResultsOf(FALSE))
  \/ ForPending
  \/ MaxRetriesReached(LogResultsOf(FALSE))
  \/ FailWrite(LogResultsOf(FALSE))
  \/ FailUnlink
  \/ PTRead(LogResultsOf(FALSE))
  \/ PTSkipEmpty(LogResultsOf(FALSE))
  \/ PTSkipMove(LogResultsOf(FALSE))
  \/ PTClassify(LogResultsOf(FALSE))
  \/ PTSummarize(LogResultsOf(FALSE))
  \/ PTWriteDone(LogResultsOf(FALSE))
  \/ PTRoute(LogResultsOf(FALSE))
  \/ PTWriteDomain(LogResultsOf(FALSE))
  \/ PTUnlink
  \/ PTAppendLog
  \/ PTPromptHistory
  \/ PTCompleted(LogResultsOf(FALSE))
  \/ PTError(LogResultsOf(FALSE))
  \/ AfterTask
  \/ ListRemaining(LogResultsOf(FALSE))
  \/ LoopMaxReached(LogResultsOf(FALSE))
  \/ \E f \in Files : Arrive(f)

\* -------------------------------------------------- the file store, alone
\* The five operations of mcp_file_ops.py called directly on Needs_Action/
\* (which may not exist) with Done/ as the destination of moves.
InitFileStore ==
  /\ needs \in [Files -> TaskDocs \cup {NoFile}]
  /\ is_dir \in BOOLEAN
  /\ ~is_dir => needs = EmptyFolder
  /\ inbox = EmptyFolder
  /\ late = EmptyFolder
  /\ done = EmptyFolder
  /\ business = EmptyFolder
  /\ personal = EmptyFolder
  /\ openai_configured = FALSE
  /\ db_ok = FALSE
  /\ agent_run = NoRun
  /\ clock = 0
  /\ run = 1
  /\ carried = <<>>
  /\ stats = FreshStats
  /\ pc = "file_store"
  /\ files = <<>>
  /\ pending = <<>>
  /\ name = 0
  /\ original = <<>>
  /\ domain = "none"
  /\ status = "none"
  /\ success = FALSE
  /\ last_log = NoLog
  /\ call = NoCall
  /\ events = [loop_complete |-> 0, loop_max_reached |-> 0]
  /\ attempts = [f \in Files |-> 0]
  /\ first_loop = [f \in Files |-> 0]
  /\ listed = [f \in Files |-> 0]
  /\ failures = [f \in Files |-> 0]
  /\ faults = 0

FsFrame ==
  UNCHANGED <<inbox, business, personal, openai_configured, db_ok, agent_run,
              clock, stats, pc,
              pending, name, domain, status, events, late, history, faults>>

\* files = list_tasks(NEEDS_ACTION)
FsList ==
  /\ pc = "file_store"
  /\ \E lg \in LogResults :
       LET r == list_tasks(is_dir, needs, lg)
       IN  /\ last_log' = IF is_dir
                          THEN [action |-> "list_tasks", success |-> TRUE,
                                sink |-> r.log]
                          ELSE NoLog
           /\ Called("list_tasks", r)
           /\ files' = r.ret
           /\ success' = ~r.raised
  /\ UNCHANGED <<needs, done, is_dir, original>>
  /\ FsFrame

\* original = read_task(NEEDS_ACTION / f)
FsRead(f) ==
  /\ pc = "file_store"
  /\ \E io \in BOOLEAN, lg1 \in LogResults, lg2 \in LogResults :
       /\ OnePath(Exists(needs[f]) /\ io, lg1, lg2)
       /\ LET r == read_task(needs[f], io, lg1, lg2)
          IN  /\ OpLogged("read_task", "read_task_error", r)
              /\ Called("read_task", r)
              /\ original' = r.ret
              /\ success' = ~r.raised
  /\ UNCHANGED <<needs, done, is_dir, files>>
  /\ FsFrame

\* write_task(NEEDS_ACTION / f, text)
FsWrite(f, text) ==
  /\ pc = "file_store"
  /\ \E io \in BOOLEAN, lg1 \in LogResults, lg2 \in LogResults :
       /\ OnePath(io, lg1, lg2)
       /\ LET r == write_task(io, lg1, lg2)
          IN  /\ needs' = IF r.written THEN [needs EXCEPT ![f] = Task(text)]
                          ELSE needs
              /\ is_dir' = (is_dir \/ r.written)
              /\ OpLogged("write_task", "write_task_error", r)
              /\ Called("write_task", r)
              /\ success' = r.ret
  /\ UNCHANGED <<done, files, original>>
  /\ FsFrame

\* move_task(NEEDS_ACTION / f, DONE / f)
FsMove(f) ==
  /\ pc = "file_store"
  /\ \E io \in MoveResults, lg1 \in LogResults, lg2 \in LogResults :
       /\ IF Exists(needs[f]) THEN OnePath(io = "moved", lg1, lg2)
          ELSE io = "moved" /\ lg1 = Nominal
       /\ LET r == move_task(needs[f], io, lg1, lg2)
          IN  /\ needs' = MoveSrc(r, needs, f)
              /\ done' = MoveDst(r, needs, done, f)
              /\ OpLogged("move_task", "move_task_error", r)
              /\ Called("move_task", r)
              /\ success' = r.ret
  /\ UNCHANGED <<is_dir, files, original>>
  /\ FsFrame

\* delete_task(NEEDS_ACTION / f)
FsDelete(f) ==
  /\ pc = "file_store"
  /\ \E io \in BOOLEAN, lg1 \in LogResults, lg2 \in LogResults :
       /\ OnePath(io, lg1, lg2)
       /\ LET r == delete_task(io, lg1, lg2)
          IN  /\ needs' = IF r.deleted THEN [needs EXCEPT ![f] = NoFile]
                          ELSE needs
              /\ OpLogged("delete_task", "delete_task_error", r)
              /\ Called("delete_task", r)
              /\ success' = r.ret
  /\ UNCHANGED <<done, is_dir, files, original>>
  /\ FsFrame

FileStoreNext ==
  \/ FsList
  \/ \E f \in Files : FsRead(f)
  \/ \E f \in Files, text \in TaskTexts : FsWrite(f, text)
  \/ \E f \in Files : FsMove(f)
  \/ \E f \in Files : FsDelete(f)

FileStoreSpec == InitFileStore /\ [][FileStoreNext]_vars

\* -------------------------------------------------- the classifier, alone
\* classify_task called directly on a content string put together from at
\* most MaxFragments of these pieces.
Fragments ==
  { <<"D","o","m","a","i","n",":"," ","p","e","r","s","o","n","a","l">>,
    <<"D","O","M","A","I","N",":","\n","\t","B","u","s","i","n","e","s","s">>,
    KwDomain, KwBusiness, KwPersonal, TxtKpi, TxtGym,
    <<"A","u","d","i","t">>, <<"K","P","I"," ","r","e","p","o","r","t">>,
    <<" ">>, <<"x">> }

RECURSIVE Concat(_)
Concat(parts) == IF parts = <<>> THEN <<>> ELSE Head(parts) \o Concat(Tail(parts))

Contents ==
  { Concat(parts) : parts \in UNION {[1..n -> Fragments] : n \in 0..MaxFragments} }

InitClassify ==
  /\ original \in Contents
  /\ pc = "classify_task"
  /\ inbox = EmptyFolder
  /\ needs = EmptyFolder
  /\ late = EmptyFolder
  /\ done = EmptyFolder
  /\ business = EmptyFolder
  /\ personal = EmptyFolder
  /\ openai_configured = FALSE
  /\ db_ok = FALSE
  /\ agent_run = NoRun
  /\ is_dir = TRUE
  /\ clock = 0
  /\ run = 1
  /\ carried = <<>>
  /\ stats = FreshStats
  /\ files = <<>>
  /\ pending = <<>>
  /\ name = 0
  /\ domain = "none"
  /\ status = "none"
  /\ success = FALSE
  /\ last_log = NoLog
  /\ call = NoCall
  /\ events = [loop_complete |-> 0, loop_max_reached |-> 0]
  /\ attempts = [f \in Files |-> 0]
  /\ first_loop = [f \in Files |-> 0]
  /\ listed = [f \in Files |-> 0]
  /\ failures = [f \in Files |-> 0]
  /\ faults = 0

\* 38-57: the header search, else the keyword scores
ClassifyDomain ==
  /\ pc = "classify_task"
  /\ domain' = classify_task(original)
  /\ pc' = "classify_log"
  /\ UNCHANGED <<folders, config, clock, stats, files, pending, name,
                 original, status, success, last_log, call, events, late,
                 history, faults>>

\* 44-45 and 59-65: the classify_task audit, then return domain
ClassifyLog ==
  /\ pc = "classify_log"
  /\ \E lg \in LogResults :
       /\ Spend(LogCost(lg))
       /\ Logged("classify_task", TRUE, lg)
       /\ call' = [op |-> "classify_task", audits |-> Entries(lg)]
       /\ pc' = IF lg.raised THEN "raised" ELSE "classified"
  /\ UNCHANGED <<folders, config, clock, stats, locals, events, late,
                 history>>

ClassifyNext == ClassifyDomain \/ ClassifyLog

ClassifySpec == InitClassify /\ [][ClassifyNext]_vars

\* ================================================================= claims
\* the positions of control inside process_task(name)
InProcessTask ==
  {"pt_read", "pt_skip", "pt_skip_move", "pt_classify", "pt_summarize",
   "pt_write_done", "pt_route", "pt_write_domain", "pt_unlink",
   "pt_append_log", "pt_prompt_history", "pt_completed", "task_error"}

\* the positions of control inside the max-retries branch for name
InEscalation == {"max_retries", "fail_write", "fail_unlink"}

\* the three states a file can be in after a process stage
DoneSuccess(f) == done[f].type \in {"processed", "task"}
DoneFailed(f) == done[f].type = "failed"
InPending(f) == Exists(needs[f])

\* every process_task call for f so far has failed
AllFailed(f) == attempts[f] = failures[f]

\* C1: when a process stage has finished, every file that a snapshot of
\* Pending has listed is in exactly one of Done (success), Done (terminal
\* failure) and Pending, whatever operation failed during the stage.
C1_ExactlyOneState ==
  pc = "list_remaining" =>
    \A f \in Files :
      listed[f] > 0 =>
        Cardinality({s \in {"success", "failed", "pending"} :
          CASE s = "success" -> DoneSuccess(f)
            [] s = "failed" -> DoneFailed(f)
            [] OTHER -> InPending(f)}) = 1

\* C2: the retry bound.  process_task is never called for a file that has
\* failed MAX_RETRIES times, and the max-retries branch is entered only when
\* MAX_RETRIES attempts have failed, never fewer and never more.  A file
\* listed in iteration 1 whose every attempt failed is still in Pending
\* after iteration i <= MAX_RETRIES with retry count i, and after iteration
\* MAX_RETRIES + 1 it has the terminal-failure document in Done, has left
\* Pending and has been attempted MAX_RETRIES times.
C2_RetryBound ==
  /\ pc \in InProcessTask =>
       /\ failures[name] < MAX_RETRIES
       /\ Get(stats.retries, name) < MAX_RETRIES
  /\ pc \in InEscalation =>
       /\ failures[name] = MAX_RETRIES
       /\ Get(stats.retries, name) = MAX_RETRIES
  /\ \A f \in Files : AllFailed(f) => attempts[f] <= MAX_RETRIES
  /\ pc = "list_remaining" =>
       \A f \in Files :
         (first_loop[f] = 1 /\ AllFailed(f)) =>
           IF stats.loops <= MAX_RETRIES
           THEN /\ InPending(f)
                /\ Get(stats.retries, f) = stats.loops
           ELSE /\ DoneFailed(f)
                /\ ~InPending(f)
                /\ attempts[f] = MAX_RETRIES

\* C3: forward progress.  Once MAX_RETRIES iterations have followed the one
\* whose snapshot first listed a file, the file has a completed or a
\* terminal-failure document in Done.
C3_ForwardProgress ==
  pc = "list_remaining" =>
    \A f \in Files :
      (first_loop[f] > 0 /\ stats.loops >= first_loop[f] + MAX_RETRIES) =>
        (DoneSuccess(f) \/ DoneFailed(f))

\* C4: no failure of a file-store or log operation ends the run abnormally:
\* an exception never leaves ralph_wiggum_loop.
C4_RunCompletes == pc # "crashed"

\* C5: terminal states are absorbing.  Once Done holds a completed or a
\* terminal-failure document for a file, no step changes or removes that
\* document or puts the file (back) in Pending.
C5_TerminalAbsorbing ==
  [][\A f \in Files :
       done[f].type \in {"processed", "failed"} =>
         /\ done'[f] = done[f]
         /\ (~Exists(needs[f]) => ~Exists(needs'[f]))]_vars

\* C6: at every point of a run a filename is in at most one of Incoming,
\* Pending and Done.
C6_OneFolder ==
  \A f \in Files :
    Cardinality({F \in {"Inbox", "Needs_Action", "Done"} :
      Exists((CASE F = "Inbox" -> inbox
                [] F = "Needs_Action" -> needs
                [] OTHER -> done)[f])}) <= 1

\* C7: the retry map changes only when process_task has returned failure,
\* and then only by adding one to the counter of that file; every other step
\* (a skip, a completion, an escalation) leaves the whole map as it is.
C7_RetryFrame ==
  [][stats'.retries # stats.retries =>
       /\ pc = "after_task"
       /\ ~success
       /\ stats'.retries =
            Put(stats.retries, name, Get(stats.retries, name) + 1)]_vars

\* C7 witness: the run has skipped or completed a file, escalated a file and
\* holds a counter at MAX_RETRIES
C7_Counted ==
  /\ stats.tasks_processed > 0
  /\ stats.tasks_failed > 0
  /\ \E f \in DOMAIN stats.retries : stats.retries[f] = MAX_RETRIES

\* C8: when process_task has failed for a file, the failure has been audited
\* with success = false and the file is still in Pending.
C8_FailureKeepsPending ==
  (pc = "after_task" /\ ~success) =>
    /\ last_log.action = "task_error"
    /\ ~last_log.success
    /\ InPending(name)

\* C9: log_action never raises: every call leaves its entry in the JSON file
\* or on the console.
C9_LogNeverRaises ==
  last_log.action # "none" => last_log.sink \in {"file", "console"}

\* C10: every file-store, classifier and summarizer call produces exactly
\* one audit entry.
C10_OneEntryPerCall == call.op # "none" => call.audits = 1

\* text holds a declaration of domain d: "domain:", any run of whitespace,
\* then d
Declares(text, d) ==
  \E i \in 1..Len(text), k \in 0..Len(text) :
    /\ StartsAt(text, i, KwDomain)
    /\ \A m \in 0..(k - 1) :
         /\ i + Len(KwDomain) + m <= Len(text)
         /\ text[i + Len(KwDomain) + m] \in Whitespace
    /\ StartsAt(text, i + Len(KwDomain) + k,
                IF d = "business" THEN KwBusiness ELSE KwPersonal)

\* C11: classify_task returns the declared domain whenever the lower-cased
\* content holds a "domain: business|personal" declaration, whatever the
\* keyword scores; without a declaration it returns business when
\* biz_score > per_score, personal when per_score > biz_score and business
\* on a tie, 0-0 and the empty content included.
C11_Classify ==
  pc \in {"classify_log", "classified"} =>
    LET text == lower(original)
        b == biz_score(text)
        p == per_score(text)
    IN  /\ domain \in {"business", "personal"}
        /\ (Declares(text, "business") \/ Declares(text, "personal")) =>
             Declares(text, domain)
        /\ (~Declares(text, "business") /\ ~Declares(text, "personal")) =>
             /\ b > p => domain = "business"
             /\ p > b => domain = "personal"
             /\ b = p => domain = "business"
        /\ original = <<>> => domain = "business"

\* C11 witness: a declared personal domain has won over a higher business
\* score, and an undeclared content has been scored
C11_HeaderWins ==
  /\ pc = "classified"
  /\ Declares(lower(original), "personal")
  /\ ~Declares(lower(original), "business")
  /\ biz_score(lower(original)) > per_score(lower(original))
  /\ domain = "personal"

\* the positions of control of process_task after openai_summarize returned
PastSummarize ==
  {"pt_write_done", "pt_route", "pt_write_domain", "pt_unlink",
   "pt_append_log", "pt_prompt_history", "pt_completed"}

StatusTags == {"fallback", "openai_ok", "openai_empty", "openai_error"}

\* C13: openai_summarize never raises to process_task: whatever the
\* external call does (no credential, a reply, a blank reply, a failure),
\* process_task goes on to compose the document with a status of the fixed
\* set, so the summarizer never sends it to its except clause.
C13_SummarizerNeverRaises ==
  call.op = "openai_summarize" =>
    /\ pc = "pt_write_done"
    /\ status \in StatusTags

\* C14: the relational sink never alters the pipeline.  Every step of a run
\* with the sink enabled, whether an insert commits or fails, is a step of
\* the run with the sink absent under the same file and log failures: the
\* two go through the same folder states, audit entries, stats and retry
\* map.
C14_SinkRefinesNoSink == [][NextNoSink]_vars

\* C14 witness: a run with the sink enabled has returned after completing a
\* file and escalating another
C14_SinkRunReturned ==
  /\ db_ok
  /\ pc = "return"
  /\ stats.tasks_processed > 0
  /\ stats.tasks_failed > 0
  /\ \E f \in Files : DoneFailed(f)

\* process_task is about to write Done for a file that an earlier attempt
\* completed in Done and left in Pending
Rewriting == pc = "pt_write_done" /\ done[name].type = "processed"

C16_RetryMapPerRun ==
  /\ (pc = "for_loop" /\ stats.loops = 0) => stats.retries = <<>>
  /\ pc # "loop_start" =>
       \A f \in Files :
         Get(stats.retries, f) =
           IF pc = "after_task" /\ f = name /\ ~success
           THEN failures[f] - 1 ELSE failures[f]
  /\ pc \in InEscalation => failures[name] = MAX_RETRIES
  /\ pc \in InProcessTask => failures[name] < MAX_RETRIES

\* C16 witness: in a second call, a file that the first call left in Pending
\* with a count, and that has failed again in this call, is attempted once
\* more although its failures over both calls have reached MAX_RETRIES
C16_FullBudgetAgain ==
  /\ run = 2
  /\ pc = "pt_read"
  /\ Get(carried, name) >= 1
  /\ failures[name] >= 1
  /\ Get(carried, name) + failures[name] >= MAX_RETRIES
  /\ Get(stats.retries, name) = failures[name]

\* C16 as stated: the count is a consecutive-failure count, so the
\* bookkeeping of a successful attempt leaves the file with a count of zero
C16_ConsecutiveCount ==
  [][(pc = "after_task" /\ success) => Get(stats'.retries, name) = 0]_vars

\* C17: the loop is left only by finding the Pending listing empty, which
\* ends the run with loop_complete, or by exhausting MAX_LOOPS iterations:
\* a run that has ended with iterations remaining has emitted loop_complete
\* and left Pending empty.
C17_TwoExits ==
  pc \in {"return", "crashed"} =>
    \/ stats.loops = MAX_LOOPS
    \/ /\ events.loop_complete = 1
       /\ \A f \in Files : ~InPending(f)

\* C18: when MAX_LOOPS iterations have been completed with Pending still
\* non-empty, the run ends with the loop_max_reached event and
\* stats.loops = MAX_LOOPS, without raising, and the files of Pending are
\* still there, unmodified, when ralph_wiggum_loop returns.
C18_MaxLoopsReturn ==
  [][pc = "loop_max" =>
       /\ pc' = "return"
       /\ events'.loop_max_reached = 1
       /\ events'.loop_complete = 0
       /\ stats'.loops = MAX_LOOPS
       /\ needs' = needs
       /\ \E f \in Files : InPending(f)]_vars

\* C19: the max-retries branch.  For a file whose count has reached
\* MAX_RETRIES the engine does not call process_task; it emits one
\* non-success max_retries_reached audit event, writes the terminal-failure
\* document to Done under the same filename, removes the source from
\* Pending and adds exactly one to tasks_failed, leaving tasks_processed and
\* the retry map as they are.
C19_Escalation ==
  [][/\ pc = "max_retries" =>
          /\ pc' = "fail_write"
          /\ last_log'.action = "max_retries_reached"
          /\ ~last_log'.success
          /\ last_log'.sink # "none"
          /\ stats' = stats
     /\ pc = "fail_write" =>
          /\ pc' = "fail_unlink"
          /\ done'[name] = Failed(clock)
          /\ stats' = stats
     /\ pc = "fail_unlink" =>
          /\ pc' = "for_pending"
          /\ DoneFailed(name)
          /\ ~Exists(needs'[name])
          /\ stats' = [stats EXCEPT !.tasks_failed = @ + 1]
     /\ pc \in InEscalation => attempts' = attempts]_vars

\* the source of the task at hand holds nothing but whitespace, or is gone
Blank(doc) == IF Exists(doc) THEN strip(doc.text) = <<>> ELSE TRUE

\* C20: process_task on an empty, whitespace-only or unreadable source takes
\* the skip path and returns success without reaching the classifier or the
\* summarizer; the engine then adds one to tasks_processed and leaves the
\* retry map alone, and the file has left Pending.
C20_SkipEmpty ==
  [][/\ (pc = "pt_read" /\ Blank(needs[name])) => pc' = "pt_skip"
     /\ pc = "pt_skip" => pc' = "pt_skip_move"
     /\ pc = "pt_skip_move" =>
          /\ pc' = "after_task"
          /\ success'
          /\ ~Exists(needs'[name])
     /\ (pc = "after_task" /\ original = <<>>) =>
          /\ stats'.tasks_processed = stats.tasks_processed + 1
          /\ stats'.retries = stats.retries]_vars

\* C21: the drain stage.  Every turn of stage_inbox's loop moves the file at
\* hand from Incoming to Pending under the same filename with one successful
\* move audit, and touches no other file of Pending; a file already in
\* Pending under that name keeps its content.
C21_DrainMovesAll ==
  [][(pc = "inbox_move" /\ files # <<>>) =>
       LET n == Head(files)
       IN  /\ pc' = "inbox_move"
           /\ ~Exists(inbox'[n])
           /\ needs'[n] = (IF Exists(needs[n]) THEN needs[n] ELSE inbox[n])
           /\ \A f \in Files \ {n} : needs'[f] = needs[f]
           /\ last_log'.action = "move_task"
           /\ call'.audits = 1]_vars

\* the filenames of the snapshot that the process stage has yet to reach
Remaining == {pending[i] : i \in DOMAIN pending}

\* C22: the process stage works on the snapshot taken at its start, in
\* filename order and one file at a time.  The snapshot is sorted and the file
\* at hand precedes what remains of it; a file is attempted at most once for
\* each snapshot that listed it, so a file that arrived after the snapshot is
\* not attempted in that iteration; and at the end of a process stage every
\* file that a snapshot has listed has been attempted.
C22_Snapshot ==
  /\ \A i, j \in DOMAIN pending : i < j => pending[i] < pending[j]
  /\ pc \in InProcessTask \cup InEscalation \cup {"after_task"} =>
       /\ name \in Files
       /\ listed[name] >= 1
       /\ \A f \in Remaining : name < f
  /\ \A f \in Files :
       /\ attempts[f] <= listed[f]
       /\ listed[f] <= stats.loops
       /\ f \in Remaining => attempts[f] < listed[f]
  /\ pc = "list_remaining" =>
       \A f \in Files : listed[f] >= 1 => attempts[f] >= 1

\* C22 witness: the process stage has gone through its snapshot while a file
\* that arrived in Pending after the snapshot was taken waits there unattempted
C22_ArrivedMidStage ==
  /\ pc = "for_pending"
  /\ pending = <<>>
  /\ \E f, g \in Files :
       /\ InPending(f)
       /\ listed[f] = 0
       /\ attempts[f] = 0
       /\ attempts[g] >= 1
       /\ f < g

\* C23: the credential check comes first.  With no credential or client
\* library configured, every call of openai_summarize takes the
\* no-credential branch (its audit entry is openai_fallback, never one of
\* the entries that follow an external call) and returns the status fallback
\* to process_task.
C23_FallbackFirst ==
  [][(pc = "pt_summarize" /\ ~openai_configured) =>
       /\ pc' = "pt_write_done"
       /\ status' = "fallback"
       /\ last_log'.action = "openai_fallback"]_vars

\* the positions of control inside ralph_wiggum_loop
InLoop ==
  InProcessTask \cup InEscalation \cup
    {"loop_start", "for_loop", "stage_inbox", "inbox_move", "list_pending",
     "loop_complete", "for_pending", "after_task", "list_remaining",
     "loop_max"}

\* C24 as stated: with the recorder enabled the run record is created exactly
\* once before the loop starts, with zero counters, is not updated while the
\* loop runs, and is updated exactly once, to the final stats, after the
\* loop has returned.
C24_RunRecordExactlyOnce ==
  db_ok =>
    /\ pc \in InLoop =>
         /\ agent_run.created = 1
         /\ agent_run.updated = 0
         /\ agent_run.loops = 0 /\ agent_run.processed = 0
         /\ agent_run.failed = 0
    /\ pc \in {"agent_complete", "exit"} =>
         /\ agent_run.created = 1
         /\ agent_run.updated = 1
         /\ agent_run.loops = stats.loops
         /\ agent_run.processed = stats.tasks_processed
         /\ agent_run.failed = stats.tasks_failed

\* C24: the run record is written on a best-effort basis.  It is created at
\* most once, before the loop starts and with zero counters, and not at all
\* with the recorder disabled; it is updated at most once, only for a record
\* whose id came back, only after the loop has returned with its terminal
\* event, and then to the final stats of the run; until then its counters
\* are zero.
C24_RunRecordBestEffort ==
  /\ agent_run.created <= 1
  /\ agent_run.updated <= 1
  /\ ~db_ok => agent_run = NoRun
  /\ pc \in {"main", "db_start_run"} => agent_run = NoRun
  /\ agent_run.run_id => agent_run.created = 1
  /\ agent_run.updated = 0 =>
       /\ agent_run.loops = 0 /\ agent_run.processed = 0
       /\ agent_run.failed = 0
  /\ pc \in InLoop \cup {"agent_start", "return", "db_finish_run"} =>
       agent_run.updated = 0
  /\ agent_run.updated = 1 =>
       /\ agent_run.run_id
       /\ events.loop_complete + events.loop_max_reached = 1
       /\ agent_run.loops = stats.loops
       /\ agent_run.processed = stats.tasks_processed
       /\ agent_run.failed = stats.tasks_failed

\* C24 witness: main has ended with the record created and updated to the
\* stats of a run that completed one task and escalated another
C24_RunRecorded ==
  /\ pc = "exit"
  /\ agent_run.created = 1
  /\ agent_run.updated = 1
  /\ agent_run.processed >= 1
  /\ agent_run.failed >= 1
  /\ agent_run.loops = stats.loops

\* C25: move_task with a source that does not exist (here: Needs_Action
\* holds no file at all) returns false, leaves exactly one non-success
\* move_task_error audit entry, changes neither folder and does not raise.
C25_MoveMissingSource ==
  [][(pc = "file_store" /\ needs = EmptyFolder /\ call'.op = "move_task") =>
       /\ ~success'
       /\ call'.audits = 1
       /\ last_log'.action = "move_task_error"
       /\ ~last_log'.success
       /\ last_log'.sink \in {"file", "console"}
       /\ needs' = needs
       /\ done' = done]_vars

\* C26: process_task returns success for a file only if Done then holds a
\* document under that filename and the file is no longer in Pending.
C26_SuccessMeansDone ==
  (pc = "after_task" /\ success) =>
    /\ Exists(done[name])
    /\ ~InPending(name)

\* the files that were in Pending at some snapshot of this run and are there
\* no more
LeftPending == {f \in Files : listed[f] >= 1 /\ ~InPending(f)}

\* C27: the statistics account for every file exactly once.  When
\* ralph_wiggum_loop returns, tasks_processed + tasks_failed is the number
\* of files that left Pending during the run, and every such file with a
\* document in Done is counted by exactly one of the two counters.
C27_StatsAccount ==
  pc = "return" =>
    /\ stats.tasks_processed + stats.tasks_failed = Cardinality(LeftPending)
    /\ stats.tasks_processed =
         Cardinality({f \in LeftPending : DoneSuccess(f)})
    /\ stats.tasks_failed =
         Cardinality({f \in LeftPending : DoneFailed(f)})

\* C28: every entry of the retry map is between 1 and MAX_RETRIES, and
\* process_task is never running for a filename whose counter has reached
\* MAX_RETRIES.
C28_RetryMapRange ==
  /\ \A f \in DOMAIN stats.retries :
       /\ f \in Files
       /\ 1 <= stats.retries[f]
       /\ stats.retries[f] <= MAX_RETRIES
  /\ pc \in InProcessTask => Get(stats.retries, name) < MAX_RETRIES

\* C28 witness: the pre-check has stopped a file whose counter stands at
\* MAX_RETRIES after exactly MAX_RETRIES attempts
C28_CounterAtCap ==
  /\ pc = "max_retries"
  /\ name \in DOMAIN stats.retries
  /\ stats.retries[name] = MAX_RETRIES
  /\ attempts[name] = MAX_RETRIES

\* C29: a run of ralph_wiggum_loop that returns has emitted exactly one
\* terminal audit event, loop_complete or loop_max_reached; stats.loops is
\* the number of iterations started (one more than the sleeps taken when
\* the run broke out of the loop, MAX_LOOPS sleeps when it did not) and is
\* at most MAX_LOOPS; and loop_max_reached is emitted only with Pending
\* non-empty after the last iteration.
C29_OneTerminalEvent ==
  /\ events.loop_complete + events.loop_max_reached <= 1
  /\ stats.loops <= MAX_LOOPS
  /\ pc = "return" =>
       /\ events.loop_complete + events.loop_max_reached = 1
       /\ 1 <= stats.loops
       /\ events.loop_complete = 1 => clock = (stats.loops - 1) * LOOP_DELAY
       /\ events.loop_max_reached = 1 =>
            /\ stats.loops = MAX_LOOPS
            /\ clock = MAX_LOOPS * LOOP_DELAY
            /\ \E f \in Files : InPending(f)
  /\ pc # "return" => events.loop_complete + events.loop_max_reached = 0

\* C29 witness: a run has returned through the for loop's else clause
C29_ReturnedAtCap ==
  /\ pc = "return"
  /\ events.loop_max_reached = 1
  /\ events.loop_complete = 0
  /\ stats.loops = MAX_LOOPS

====
